---- MODULE Spec2Model ----
(***************************************************************************)
(* A model of the YouTube transcript command line tool (src/main.py):      *)
(* main(), fetch_transcript() and format_transcript(), together with the   *)
(* library behaviour they rest on (argparse's exit status, logging         *)
(* records, Rich console markup, the try/except dispatch of Python).       *)
(*                                                                         *)
(* Strings are sequences of atoms.  An atom is a single character ("[",    *)
(* "]", "/", ",", " ", a digit, a letter) or an unbroken run of text that  *)
(* holds none of the characters an operation of the program looks at.      *)
(* An optional value (None or a value) is a sequence of length 0 or 1.     *)
(***************************************************************************)
EXTENDS Integers, Sequences, FiniteSets, TLC

VARIABLES
    pc,               \* the control position of the run
    caller,           \* who called fetch_transcript: "main" or "test"
    argv,             \* the command line (optional)
    args,             \* argparse.Namespace returned by parse_args()
    languages_list,   \* main.py:180
    handler_level,    \* level of the RichHandler of main.py:158
    log,              \* records created by the logger "youtube_transcript_cli"
    call,             \* parameters of the running fetch_transcript call
    http_client_args, \* main.py:36
    session,          \* main.py:37
    sessions_created, \* number of Session() constructions
    api_calls,        \* YouTubeTranscriptApi(**kwargs) constructions
    request_calls,    \* fetch / get_transcript calls made on the api object
    api_outcome,      \* what the api object's call returned or raised (optional)
    result,           \* value returned by fetch_transcript (optional)
    raised,           \* exception in flight (optional)
    formatted,        \* main.py:194 (optional)
    stdout,           \* text written to standard output
    file,             \* the output file: content, handle, opens, writes
    exit_code         \* process exit status (optional)

vars == << pc, caller, argv, args, languages_list, handler_level, log, call,
           http_client_args, session, sessions_created, api_calls,
           request_calls, api_outcome, result, raised, formatted, stdout, file, exit_code >>

----------------------------------------------------------------------------
(* Bounds of the model *)

MaxLangLen == 4      \* longest --languages value, in characters
MaxEntries == 2      \* longest transcript, in caption entries

----------------------------------------------------------------------------
(* Python values *)

None == << >>
Some(v) == << v >>
IsNone(o) == o = << >>
Val(o) == o[1]

\* bool(x) of an optional string: None and "" are falsy
Truthy(o) == o # None /\ Val(o) # << >>

\* bool(x) of an optional list: None and [] are falsy
TruthyList(o) == o # None /\ Len(Val(o)) > 0

\* Python numbers: int and float compare by value
PyInt(n) == [type |-> "int", v |-> n]

\* float(x)
ToFloat(x) == [type |-> "float", v |-> x.v]

PyEq(a, b) == a.v = b.v

RECURSIVE Concat(_)
Concat(ss) == IF ss = << >> THEN << >> ELSE Head(ss) \o Concat(Tail(ss))

\* sep.join(parts)
RECURSIVE Join(_, _)
Join(parts, sep) ==
    IF parts = << >> THEN << >>
    ELSE IF Len(parts) = 1 THEN parts[1]
    ELSE parts[1] \o sep \o Join(Tail(parts), sep)

\* pat in s
Contains(s, pat) ==
    \E i \in 0..(Len(s) - Len(pat)) :
        \A k \in 1..Len(pat) : s[i + k] = pat[k]

SeqsUpTo(S, n) == UNION { [1..k -> S] : k \in 0..n }

Whitespace == {" ", "\n"}

\* str.strip()
RECURSIVE LStrip(_)
LStrip(s) == IF s # << >> /\ Head(s) \in Whitespace THEN LStrip(Tail(s)) ELSE s

RECURSIVE RStrip(_)
RStrip(s) ==
    IF s # << >> /\ s[Len(s)] \in Whitespace
    THEN RStrip(SubSeq(s, 1, Len(s) - 1)) ELSE s

Strip(s) == RStrip(LStrip(s))

\* str.split(","), scanning left to right
RECURSIVE SplitFrom(_, _)
SplitFrom(s, cur) ==
    IF s = << >> THEN << cur >>
    ELSE IF Head(s) = "," THEN << cur >> \o SplitFrom(Tail(s), << >>)
    ELSE SplitFrom(Tail(s), Append(cur, Head(s)))

SplitComma(s) == SplitFrom(s, << >>)

Digit == [c \in {"0", "1", "2", "3", "4", "5", "6", "7", "8", "9"} |->
            CASE c = "0" -> 0 [] c = "1" -> 1 [] c = "2" -> 2 [] c = "3" -> 3
              [] c = "4" -> 4 [] c = "5" -> 5 [] c = "6" -> 6 [] c = "7" -> 7
              [] c = "8" -> 8 [] c = "9" -> 9]

DigitChar(d) == << "0", "1", "2", "3", "4", "5", "6", "7", "8", "9" >>[d + 1]

\* str(n) of a natural number
RECURSIVE Digits(_)
Digits(n) == IF n < 10 THEN << DigitChar(n) >>
             ELSE Append(Digits(n \div 10), DigitChar(n % 10))

----------------------------------------------------------------------------
(* Argument parsing: main.py:97-149 *)

\* int(token) succeeds on a non-empty run of decimal digits
IntParses(tok) == tok # << >> /\ \A i \in 1..Len(tok) : tok[i] \in DOMAIN Digit

RECURSIVE IntValue(_)
IntValue(tok) == IF tok = << >> THEN 0
                 ELSE 10 * IntValue(SubSeq(tok, 1, Len(tok) - 1)) + Digit[tok[Len(tok)]]

LogLevelChoices == {"DEBUG", "INFO", "WARNING", "ERROR", "CRITICAL"}

LevelNo == [l \in LogLevelChoices |->
              CASE l = "DEBUG" -> 10 [] l = "INFO" -> 20 [] l = "WARNING" -> 30
                [] l = "ERROR" -> 40 [] l = "CRITICAL" -> 50]

VideoIds == {<< "dQw4" >>}

\* Command lines: each option is absent (None) or given with a value.
ValidArgvs ==
    [ video_id  : {Some(v) : v \in VideoIds},
      languages : {None, Some(<< >>), Some(<< "e", "s", ",", "f", "r" >>)},
      output    : {None, Some(<< >>), Some(<< "out.txt" >>)},
      proxy     : {None, Some(<< "http://localhost:8080" >>)},
      timeout   : {None, Some(<< "5" >>)},
      log_level : {None, Some("ERROR")},
      flags     : {<< >>, << "-v" >>, << "-d" >>},
      help      : {FALSE} ]

PlainArgv == [ video_id |-> Some(<< "dQw4" >>), languages |-> None, output |-> None,
               proxy |-> None, timeout |-> None, log_level |-> None,
               flags |-> << >>, help |-> FALSE ]

InvalidArgvs ==
    { [PlainArgv EXCEPT !.video_id = None],
      [PlainArgv EXCEPT !.timeout = Some(<< "a", "b", "c" >>)],
      [PlainArgv EXCEPT !.timeout = Some(<< "2", ".", "5" >>)],
      [PlainArgv EXCEPT !.log_level = Some("LOUD")],
      [PlainArgv EXCEPT !.help = TRUE] }

\* command lines that give both -v and -d, in either order, and other levels
FlagOrderArgvs ==
    { [PlainArgv EXCEPT !.flags = << "-v", "-d" >>],
      [PlainArgv EXCEPT !.flags = << "-d", "-v" >>],
      [PlainArgv EXCEPT !.flags = << "-d", "-v" >>, !.log_level = Some("ERROR")],
      [PlainArgv EXCEPT !.log_level = Some("DEBUG")],
      [PlainArgv EXCEPT !.log_level = Some("INFO")],
      [PlainArgv EXCEPT !.log_level = Some("CRITICAL")] }

Argvs == ValidArgvs \cup InvalidArgvs \cup FlagOrderArgvs

\* parser.error(): a required positional is missing, type=int rejects the
\* value, or the value is not among the choices
ArgparseError(a) ==
    \/ a.video_id = None
    \/ a.timeout # None /\ ~IntParses(Val(a.timeout))
    \/ a.log_level # None /\ Val(a.log_level) \notin LogLevelChoices

\* two store_const actions share dest="log_level_flag": the last one given wins
LogLevelFlag(flags) ==
    IF flags = << >> THEN None
    ELSE Some(IF flags[Len(flags)] = "-v" THEN "INFO" ELSE "DEBUG")

Namespace(a) ==
    [ video_id       |-> Val(a.video_id),
      languages      |-> a.languages,
      output         |-> a.output,
      proxy          |-> a.proxy,
      timeout        |-> IF a.timeout = None THEN None
                         ELSE Some(PyInt(IntValue(Val(a.timeout)))),
      log_level      |-> IF a.log_level = None THEN "WARNING"
                         ELSE Val(a.log_level),
      log_level_flag |-> LogLevelFlag(a.flags) ]

NoArgs == [ video_id |-> << >>, languages |-> None, output |-> None, proxy |-> None,
            timeout |-> None, log_level |-> "WARNING", log_level_flag |-> None ]

\* exit status of parser.error()
ArgparseErrorStatus == 2

\* exit status of sys.exit(1)
FailureStatus == 1

\* exit status of a run whose main() returns
SuccessStatus == 0

----------------------------------------------------------------------------
(* Exceptions: the classes imported at main.py:3-14 and Python's own *)

Parent ==
    [ c \in { "VideoUnavailable", "TranscriptsDisabled", "NoTranscriptFound",
              "RequestBlocked", "CouldNotRetrieveTranscript", "Timeout",
              "RequestException", "IOError", "MarkupError", "ValueError", "KeyError",
              "Exception", "SystemExit", "BaseException" } |->
        CASE c \in { "VideoUnavailable", "TranscriptsDisabled", "NoTranscriptFound",
                     "RequestBlocked" } -> "CouldNotRetrieveTranscript"
          [] c = "Timeout" -> "RequestException"
          [] c = "RequestException" -> "IOError"
          [] c \in { "CouldNotRetrieveTranscript", "IOError", "MarkupError",
                     "ValueError", "KeyError" } -> "Exception"
          [] OTHER -> "BaseException" ]

RECURSIVE Ancestors(_)
Ancestors(c) == IF c = "BaseException" THEN {c} ELSE {c} \cup Ancestors(Parent[c])

\* isinstance(e, c)
IsInstance(cls, c) == c \in Ancestors(cls)

\* the except clauses of main.py:212-264, in source order
ExceptClauses ==
    << {"VideoUnavailable"}, {"TranscriptsDisabled"}, {"NoTranscriptFound"},
       {"Timeout", "RequestException"}, {"RequestBlocked"}, {"Exception"} >>

Matches(cls, k) == \E c \in ExceptClauses[k] : IsInstance(cls, c)

\* the last clause that matches instead of the first
SelectedClause_Last(cls) ==
    IF \E k \in 1..Len(ExceptClauses) : Matches(cls, k)
    THEN CHOOSE k \in 1..Len(ExceptClauses) :
            Matches(cls, k) /\ \A j \in (k + 1)..Len(ExceptClauses) : ~Matches(cls, j)
    ELSE 0

\* the last clause catching every BaseException, as a bare "except:" does
SelectedClause_CatchAll(cls) ==
    IF \E k \in 1..Len(ExceptClauses) : Matches(cls, k)
    THEN CHOOSE k \in 1..Len(ExceptClauses) :
            Matches(cls, k) /\ \A j \in 1..(k - 1) : ~Matches(cls, j)
    ELSE Len(ExceptClauses)

\* the first clause that matches, 0 when none does
SelectedClause(cls) ==
    IF \E k \in 1..Len(ExceptClauses) : Matches(cls, k)
    THEN CHOOSE k \in 1..Len(ExceptClauses) :
            Matches(cls, k) /\ \A j \in 1..(k - 1) : ~Matches(cls, j)
    ELSE 0

\* str(e) of an exception of class cls raised by the library
Detail(cls) == << "str(e) of ", cls >>

Exc(cls) == [cls |-> cls, detail |-> Detail(cls), code |-> 0]

\* the exception sys.exit(code) raises
SystemExit(code) == [cls |-> "SystemExit", detail |-> Digits(code), code |-> code]

\* the failures the fetch step raises in this model
FetchFailures == { "VideoUnavailable", "TranscriptsDisabled", "NoTranscriptFound",
                   "RequestBlocked", "Timeout", "RequestException", "ValueError" }

----------------------------------------------------------------------------
(* Log records and the messages of main() *)

Record(level, msg) == [level |-> level, msg |-> msg, exc_info |-> FALSE]

\* logger.exception(): an ERROR record that carries the traceback
ExceptionRecord(msg) == [level |-> "ERROR", msg |-> msg, exc_info |-> TRUE]

MsgParsedArguments == << "Parsed arguments: ", "Namespace(...)" >>

MsgEffectiveLevel(level_str) == << "Effective log level set to: ", level_str >>

MsgFetching(video_id) ==
    << "Fetching transcript for video ID: ", "[", "bold", "]" >> \o video_id
        \o << "[", "/", "bold", "]" >>

MsgFetchDebug(video_id) ==
    << "Fetching transcript for video_id='" >> \o video_id \o << "', languages=..." >>

MsgSaved(path) ==
    << "Transcript successfully saved to ", "[", "cyan", "]" >> \o path
        \o << "[", "/", "cyan", "]" >>

MsgWriteFailed(path, detail) ==
    << "Failed to write transcript to file " >> \o path \o << ": " >> \o detail

MsgVideoUnavailable(video_id) ==
    << "Video '" >> \o video_id
        \o << "' is unavailable. ",
              "This might mean it has been deleted or set to private. ",
              "Please check the video ID and its public accessibility." >>

MsgTranscriptsDisabled(video_id) ==
    << "Transcripts are disabled for video '" >> \o video_id
        \o << "'. ", "Subtitles may not be available or were disabled by the uploader." >>

MsgNoTranscriptBase(video_id) ==
    << "Could not find a transcript for video '" >> \o video_id
        \o << "' ", "in the requested language(s)." >>

\* main.py:233-245
MsgNoTranscript(video_id, langs, detail) ==
    IF TruthyList(langs)
    THEN MsgNoTranscriptBase(video_id)
            \o << " ", "Tried languages: ", "[", "yellow", "]" >>
            \o Join(Val(langs), << ",", " " >>)
            \o << "[", "/", "yellow", "]", "." >>
            \o << " Details: ", "[", "dim", "]" >> \o detail \o << "[", "/", "dim", "]" >>
    ELSE MsgNoTranscriptBase(video_id)
            \o << " Details: ", "[", "dim", "]" >> \o detail \o << "[", "/", "dim", "]" >>

\* the network message without the exception's text
MsgNetwork_CuratedOnly(detail) ==
    << "A network issue occurred (e.g., timeout or connection problem). ",
       "Please check your internet connection and try again." >>

MsgNetwork(detail) ==
    << "A network issue occurred (e.g., timeout or connection problem). ",
       "Please check your internet connection and try again." >>
        \o << " Details: ", "[", "dim", "]" >> \o detail \o << "[", "/", "dim", "]" >>

MsgBlocked ==
    << "Your request was blocked by YouTube. ",
       "This may be due to too many requests or an IP block. ",
       "Please try again later or use a proxy." >>

MsgUnexpected(detail) == << "An unexpected error occurred.", " Details: " >> \o detail

----------------------------------------------------------------------------
(* format_transcript: main.py:82-93 *)

\* A caption start time is a number of eighths of a second: such a float is
\* exact in binary, so f"{start:.2f}" rounds it to hundredths with ties to even.
Hundredths(eighths) ==
    LET n == 25 * eighths
        q == n \div 2
    IN  IF n % 2 = 0 THEN q
        ELSE IF q % 2 = 0 THEN q ELSE q + 1

\* f"{start:.2f}"
Format2f(eighths) ==
    LET h == Hundredths(eighths)
    IN  Digits(h \div 100) \o << ".", DigitChar((h % 100) \div 10), DigitChar(h % 10) >>

\* f"[{item['start']:.2f}] {item['text']}"
FormatLine(item) == << "[" >> \o Format2f(item.start) \o << "]", " " >> \o item.text

RECURSIVE FormatLines(_)
FormatLines(items) ==
    IF items = << >> THEN << >>
    ELSE << FormatLine(Head(items)) >> \o FormatLines(Tail(items))

\* every line ended with a newline, the last one too
format_transcript_TrailingNewline(transcript_items) ==
    Concat([i \in 1..Len(transcript_items) |->
                FormatLine(transcript_items[i]) \o << "\n" >>])

format_transcript(transcript_items) == Join(FormatLines(transcript_items), << "\n" >>)

\* item['start'] or item['text'] raises KeyError
FormatRaises(transcript_items) ==
    \E i \in 1..Len(transcript_items) :
        ~({"start", "text"} \subseteq transcript_items[i].keys)

----------------------------------------------------------------------------
(* console.print of the Console() of main.py:21: Rich console markup *)

\* atoms that begin with a character of [a-z#/@], the first character of a tag
TagStart == { "/", "#", "@", "music", "i", "b", "bold", "cyan", "yellow", "dim",
              "e", "s", "f", "r", "n", "a" }

\* the index of the "]" that ends the tag opened at i, 0 when s[i] opens no tag:
\* the pattern \[([a-z#/@][^[]*?)] takes the nearest "]" with no "[" before it
TagEnd(s, i) ==
    IF /\ s[i] = "["
       /\ i + 1 <= Len(s)
       /\ s[i + 1] \in TagStart
       /\ \E j \in (i + 2)..Len(s) :
             s[j] = "]" /\ \A k \in (i + 2)..(j - 1) : s[k] \notin {"[", "]"}
    THEN CHOOSE j \in (i + 2)..Len(s) :
             s[j] = "]" /\ \A k \in (i + 2)..(j - 1) : s[k] \notin {"[", "]"}
    ELSE 0

\* the index in the stack of the innermost open tag named name, 0 when none
OpenTag(stack, name) ==
    IF \E k \in 1..Len(stack) : stack[k] = name
    THEN CHOOSE k \in 1..Len(stack) :
            stack[k] = name /\ \A j \in (k + 1)..Len(stack) : stack[j] # name
    ELSE 0

Remove(stack, k) == SubSeq(stack, 1, k - 1) \o SubSeq(stack, k + 1, Len(stack))

\* rich.markup.render: tags are taken out of the text; a closing tag with no
\* open tag to close raises MarkupError
RECURSIVE Render(_, _, _, _)
Render(s, i, stack, out) ==
    IF i > Len(s) THEN [ok |-> TRUE, text |-> out]
    ELSE LET j == TagEnd(s, i)
         IN  IF j = 0 THEN Render(s, i + 1, stack, Append(out, s[i]))
             ELSE IF s[i + 1] = "/"
             THEN LET name == Strip(SubSeq(s, i + 2, j - 1))
                      k == IF name = << >> THEN Len(stack) ELSE OpenTag(stack, name)
                  IN  IF k = 0 THEN [ok |-> FALSE, text |-> out]
                      ELSE Render(s, j + 1, Remove(stack, k), out)
             ELSE Render(s, j + 1, Append(stack, Strip(SubSeq(s, i + 1, j - 1))), out)

RenderMarkup(s) == Render(s, 1, << >>, << >>)

\* console.print(text): the rendered text and the line terminator
console_print(text) ==
    LET r == RenderMarkup(text)
    IN  [ok |-> r.ok, text |-> IF r.ok THEN r.text \o << "\n" >> ELSE << >>]

----------------------------------------------------------------------------
(* Caption entries and what the transcript API can answer *)

\* a caption entry; keys are the keys item[...] finds in it
Entry(start, duration, text) ==
    [start |-> start, duration |-> duration, text |-> text,
     keys |-> {"start", "duration", "text"}]

\* an entry without the key 'start'
Malformed == [Entry(0, 8, << "Hello" >>) EXCEPT !.keys = {"duration", "text"}]

\* caption texts: plain, with a lower-case bracketed word, with a capitalised
\* one, with a balanced pair of tags, with a closing tag alone, with a line break
Texts ==
    { << "Hello", " ", "world" >>,
      << "[", "music", "]" >>,
      << "[", "Music", "]" >>,
      << "[", "i", "]", "Hello", "[", "/", "i", "]" >>,
      << "Hello", "[", "/", "i", "]" >>,
      << "a", "\n", "b" >> }

\* the transcripts the API returns in a run of main()
MainTranscripts ==
    { << >> } \cup { << Entry(0, 8, t) >> : t \in Texts }
        \cup { << Entry(0, 8, << "Hello", " ", "world" >>),
                  Entry(21, 16, << "[", "music", "]" >>) >>,
               << Malformed >> }

Returned(t) == [returned |-> Some(t), raised |-> None]

Raised(e) == [returned |-> None, raised |-> Some(e)]

ApiOutcomes ==
    { Returned(t) : t \in MainTranscripts } \cup { Raised(Exc(c)) : c \in FetchFailures }

----------------------------------------------------------------------------
(* fetch_transcript: main.py:26-79 *)

NewSession == [timeout |-> None, proxies |-> {}, proxies_assigned |-> FALSE]

\* the proxy set for one scheme only
ProxyMapping_HttpOnly(proxy_uri) == { << "http", proxy_uri >> }

\* main.py:44
ProxyMapping(proxy_uri) == { << "http", proxy_uri >>, << "https", proxy_uri >> }

\* "if timeout or proxy_uri": a timeout of 0 taken for no timeout
NeedsSession_TruthyTimeout(timeout, proxy_uri) ==
    (timeout # None /\ Val(timeout).v # 0) \/ Truthy(proxy_uri)

\* main.py:39
NeedsSession(timeout, proxy_uri) == timeout # None \/ Truthy(proxy_uri)

\* main.py:40-44
ConfigureSession(timeout, proxy_uri) ==
    LET s1 == IF timeout # None
              THEN [NewSession EXCEPT !.timeout = Some(ToFloat(Val(timeout)))]
              ELSE NewSession
    IN  IF Truthy(proxy_uri)
        THEN [s1 EXCEPT !.proxies = ProxyMapping(Val(proxy_uri)),
                        !.proxies_assigned = TRUE]
        ELSE s1

\* "if languages is not None": an empty list sent to fetch
RequestCall_NotNone(video_id, languages) ==
    IF languages # None
    THEN [method |-> "fetch", video_id |-> video_id, languages |-> Some(Val(languages))]
    ELSE [method |-> "get_transcript", video_id |-> video_id, languages |-> None]

\* main.py:72-79: the one call made on the api object
RequestCall(video_id, languages) ==
    IF TruthyList(languages)
    THEN [method |-> "fetch", video_id |-> video_id, languages |-> Some(Val(languages))]
    ELSE [method |-> "get_transcript", video_id |-> video_id, languages |-> None]

\* main.py:74, 79: the value fetch_transcript returns when the api call answers o
ReturnOf(o) == o.returned

\* the exception that leaves fetch_transcript when the api call answers o
RaiseOf(o) == o.raised

\* main.py:32-45
FetchConfigure ==
    /\ pc = "fetch_entry"
    /\ log' = Append(log, Record("DEBUG", MsgFetchDebug(call.video_id)))
    /\ IF NeedsSession(call.timeout, call.proxy_uri)
       THEN LET s == ConfigureSession(call.timeout, call.proxy_uri)
            IN  /\ session' = Some(s)
                /\ sessions_created' = sessions_created + 1
                /\ http_client_args' = { << "http_client", s >> }
       ELSE /\ session' = None
            /\ http_client_args' = {}
            /\ UNCHANGED sessions_created
    /\ pc' = "fetch_construct"
    /\ UNCHANGED << caller, argv, args, languages_list, handler_level, call, api_calls,
                    request_calls, api_outcome, result, raised, formatted, stdout,
                    file, exit_code >>

\* main.py:59-67
FetchConstruct ==
    /\ pc = "fetch_construct"
    /\ api_calls' = Append(api_calls, http_client_args)
    /\ pc' = "fetch_request"
    /\ UNCHANGED << caller, argv, args, languages_list, handler_level, log, call,
                    http_client_args, session, sessions_created, request_calls,
                    api_outcome, result, raised, formatted, stdout, file, exit_code >>

\* main.py:72-79: the api call returns a transcript or raises
FetchRequest ==
    /\ pc = "fetch_request"
    /\ \E o \in ApiOutcomes :
        /\ api_outcome' = Some(o)
        /\ request_calls' = Append(request_calls, RequestCall(call.video_id, call.languages))
        /\ result' = ReturnOf(o)
        /\ raised' = RaiseOf(o)
        /\ pc' = IF caller = "test" THEN "test_done"
                 ELSE IF RaiseOf(o) # None THEN "except" ELSE "format"
    /\ UNCHANGED << caller, argv, args, languages_list, handler_level, log, call,
                    http_client_args, session, sessions_created, api_calls,
                    formatted, stdout, file, exit_code >>

----------------------------------------------------------------------------
(* main: main.py:96-267 *)

HelpText == << "usage: main.py [-h] ..." >>

\* main.py:152
EffectiveLevel(a) == IF a.log_level_flag # None THEN Val(a.log_level_flag) ELSE a.log_level

\* the list without lang.strip()
LanguagesList_NoStrip(languages_arg) ==
    IF Truthy(languages_arg) THEN Some(SplitComma(Val(languages_arg))) ELSE None

\* main.py:180-182
LanguagesList(languages_arg) ==
    IF Truthy(languages_arg)
    THEN LET parts == SplitComma(Val(languages_arg))
         IN  Some([i \in 1..Len(parts) |-> Strip(parts[i])])
    ELSE None

\* main.py:97-149: parse_args() ends the process on -h (status 0) and on a
\* usage error (parser.error, status 2)
ParseArgs ==
    /\ pc = "start"
    /\ \E a \in Argvs :
        /\ argv' = Some(a)
        /\ IF a.help
           THEN /\ stdout' = stdout \o HelpText
                /\ exit_code' = Some(SuccessStatus)
                /\ pc' = "exited"
                /\ UNCHANGED args
           ELSE IF ArgparseError(a)
           THEN /\ exit_code' = Some(ArgparseErrorStatus)
                /\ pc' = "exited"
                /\ UNCHANGED << args, stdout >>
           ELSE /\ args' = Namespace(a)
                /\ pc' = "configure_logging"
                /\ UNCHANGED << exit_code, stdout >>
    /\ UNCHANGED << caller, languages_list, handler_level, log, call, http_client_args,
                    session, sessions_created, api_calls, request_calls, api_outcome,
                    result, raised, formatted, file >>

\* main.py:151-173
ConfigureLogging ==
    /\ pc = "configure_logging"
    /\ handler_level' = LevelNo[EffectiveLevel(args)]
    /\ log' = log \o << Record("DEBUG", MsgParsedArguments),
                        Record("DEBUG", MsgEffectiveLevel(EffectiveLevel(args))) >>
    /\ pc' = "split_languages"
    /\ UNCHANGED << caller, argv, args, languages_list, call, http_client_args, session,
                    sessions_created, api_calls, request_calls, api_outcome, result,
                    raised, formatted, stdout, file, exit_code >>

\* main.py:175-182
SplitLanguages ==
    /\ pc = "split_languages"
    /\ languages_list' = LanguagesList(args.languages)
    /\ pc' = "try"
    /\ UNCHANGED << caller, argv, args, handler_level, log, call, http_client_args,
                    session, sessions_created, api_calls, request_calls, api_outcome,
                    result, raised, formatted, stdout, file, exit_code >>

\* the output file opened for writing before the fetch instead of after it
CallFetch_OpenFirst ==
    /\ pc = "try"
    /\ log' = Append(log, Record("INFO", MsgFetching(args.video_id)))
    /\ call' = [video_id |-> args.video_id, languages |-> languages_list,
                proxy_uri |-> args.proxy, timeout |-> args.timeout]
    /\ file' = IF Truthy(args.output)
               THEN [file EXCEPT !.handle = "open", !.content = Some(<< >>),
                                 !.opens = Append(@, [path |-> Val(args.output),
                                                      mode |-> "w",
                                                      encoding |-> "utf-8"])]
               ELSE file
    /\ pc' = "fetch_entry"
    /\ UNCHANGED << caller, argv, args, languages_list, handler_level, http_client_args,
                    session, sessions_created, api_calls, request_calls, api_outcome,
                    result, raised, formatted, stdout, exit_code >>

\* main.py:188-192
CallFetch ==
    /\ pc = "try"
    /\ log' = Append(log, Record("INFO", MsgFetching(args.video_id)))
    /\ call' = [video_id |-> args.video_id, languages |-> languages_list,
                proxy_uri |-> args.proxy, timeout |-> args.timeout]
    /\ pc' = "fetch_entry"
    /\ UNCHANGED << caller, argv, args, languages_list, handler_level, http_client_args,
                    session, sessions_created, api_calls, request_calls, api_outcome,
                    result, raised, formatted, stdout, file, exit_code >>

\* main.py:194
Format ==
    /\ pc = "format"
    /\ IF FormatRaises(Val(result))
       THEN /\ raised' = Some(Exc("KeyError"))
            /\ pc' = "except"
            /\ UNCHANGED formatted
       ELSE /\ formatted' = Some(format_transcript(Val(result)))
            /\ pc' = "sink"
            /\ UNCHANGED raised
    /\ UNCHANGED << caller, argv, args, languages_list, handler_level, log, call,
                    http_client_args, session, sessions_created, api_calls,
                    request_calls, api_outcome, result, stdout, file, exit_code >>

\* main.py:196-198: open(args.output, "w", encoding="utf-8") truncates or
\* creates the file, or raises IOError
OpenFile ==
    /\ pc = "sink"
    /\ Truthy(args.output)
    /\ \E ok \in BOOLEAN :
        LET o == [path |-> Val(args.output), mode |-> "w", encoding |-> "utf-8"]
        IN  IF ok
            THEN /\ file' = [file EXCEPT !.opens = Append(@, o), !.handle = "open",
                                         !.content = Some(<< >>)]
                 /\ pc' = "write"
                 /\ UNCHANGED raised
            ELSE /\ file' = [file EXCEPT !.opens = Append(@, o), !.failed = TRUE]
                 /\ raised' = Some(Exc("IOError"))
                 /\ pc' = "io_error"
    /\ UNCHANGED << caller, argv, args, languages_list, handler_level, log, call,
                    http_client_args, session, sessions_created, api_calls,
                    request_calls, api_outcome, result, formatted, stdout, exit_code >>

\* main.py:198-203: f.write(formatted), the with statement closes the file on
\* both ways out, then the confirmation is logged
WriteFile ==
    /\ pc = "write"
    /\ \E ok \in BOOLEAN :
        IF ok
        THEN /\ file' = [file EXCEPT !.writes = Append(@, Val(formatted)),
                                     !.content = Some(Val(@) \o Val(formatted)),
                                     !.handle = "closed"]
             /\ log' = Append(log, Record("INFO", MsgSaved(Val(args.output))))
             /\ pc' = "return"
             /\ UNCHANGED raised
        ELSE /\ file' = [file EXCEPT !.handle = "closed", !.failed = TRUE]
             /\ raised' = Some(Exc("IOError"))
             /\ pc' = "io_error"
             /\ UNCHANGED log
    /\ UNCHANGED << caller, argv, args, languages_list, handler_level, call,
                    http_client_args, session, sessions_created, api_calls,
                    request_calls, api_outcome, result, formatted, stdout, exit_code >>

\* main.py:204-208
ExceptIOError ==
    /\ pc = "io_error"
    /\ log' = Append(log, Record("ERROR",
                 MsgWriteFailed(Val(args.output), Val(raised).detail)))
    /\ raised' = Some(SystemExit(FailureStatus))
    /\ pc' = "except"
    /\ UNCHANGED << caller, argv, args, languages_list, handler_level, call,
                    http_client_args, session, sessions_created, api_calls,
                    request_calls, api_outcome, result, formatted, stdout, file,
                    exit_code >>

\* main.py:209-210
PrintStdout ==
    /\ pc = "sink"
    /\ ~Truthy(args.output)
    /\ LET r == console_print(Val(formatted))
       IN  IF r.ok
           THEN /\ stdout' = stdout \o r.text
                /\ pc' = "return"
                /\ UNCHANGED raised
           ELSE /\ raised' = Some(Exc("MarkupError"))
                /\ pc' = "except"
                /\ UNCHANGED stdout
    /\ UNCHANGED << caller, argv, args, languages_list, handler_level, log, call,
                    http_client_args, session, sessions_created, api_calls,
                    request_calls, api_outcome, result, formatted, file, exit_code >>

\* an except clause of main.py:212-267 that logs record and calls sys.exit(1)
LogAndExit(k, record) ==
    /\ pc = "except"
    /\ SelectedClause(Val(raised).cls) = k
    /\ log' = Append(log, record)
    /\ raised' = Some(SystemExit(FailureStatus))
    /\ exit_code' = Some(FailureStatus)
    /\ pc' = "exited"
    /\ UNCHANGED << caller, argv, args, languages_list, handler_level, call,
                    http_client_args, session, sessions_created, api_calls,
                    request_calls, api_outcome, result, formatted, stdout, file >>

\* main.py:212-219
ExceptVideoUnavailable ==
    LogAndExit(1, Record("ERROR", MsgVideoUnavailable(args.video_id)))

\* main.py:220-226
ExceptTranscriptsDisabled ==
    LogAndExit(2, Record("ERROR", MsgTranscriptsDisabled(args.video_id)))

\* main.py:227-246
ExceptNoTranscriptFound ==
    /\ raised # None
    /\ LogAndExit(3, Record("ERROR",
            MsgNoTranscript(args.video_id, languages_list, Val(raised).detail)))

\* the network clause calling the fetch again instead of sys.exit(1)
ExceptNetwork_Retry ==
    /\ pc = "except"
    /\ raised # None
    /\ SelectedClause(Val(raised).cls) = 4
    /\ log' = Append(log, Record("ERROR", MsgNetwork(Val(raised).detail)))
    /\ raised' = None
    /\ pc' = "fetch_entry"
    /\ UNCHANGED << caller, argv, args, languages_list, handler_level, call,
                    http_client_args, session, sessions_created, api_calls,
                    request_calls, api_outcome, result, formatted, stdout, file,
                    exit_code >>

\* main.py:247-255
ExceptNetwork ==
    /\ raised # None
    /\ LogAndExit(4, Record("ERROR", MsgNetwork(Val(raised).detail)))

\* the clause of main.py:256-263 without its sys.exit(1): main() goes on to return
ExceptRequestBlocked_NoExit ==
    /\ pc = "except"
    /\ SelectedClause(Val(raised).cls) = 5
    /\ log' = Append(log, Record("ERROR", MsgBlocked))
    /\ pc' = "return"
    /\ UNCHANGED << caller, argv, args, languages_list, handler_level, call,
                    http_client_args, session, sessions_created, api_calls,
                    request_calls, api_outcome, result, raised, formatted, stdout,
                    file, exit_code >>

\* main.py:256-263
ExceptRequestBlocked ==
    LogAndExit(5, Record("ERROR", MsgBlocked))

\* main.py:264-267
ExceptException ==
    /\ raised # None
    /\ LogAndExit(6, ExceptionRecord(MsgUnexpected(Val(raised).detail)))

\* an exception no clause catches leaves main(): SystemExit ends the process
\* with its code, any other exception with status 1 after a traceback
Uncaught ==
    /\ pc = "except"
    /\ SelectedClause(Val(raised).cls) = 0
    /\ exit_code' = Some(IF Val(raised).cls = "SystemExit" THEN Val(raised).code ELSE 1)
    /\ pc' = "exited"
    /\ UNCHANGED << caller, argv, args, languages_list, handler_level, log, call,
                    http_client_args, session, sessions_created, api_calls,
                    request_calls, api_outcome, result, raised, formatted, stdout, file >>

\* main() returns: main.py:270-271
Return ==
    /\ pc = "return"
    /\ exit_code' = Some(SuccessStatus)
    /\ pc' = "exited"
    /\ UNCHANGED << caller, argv, args, languages_list, handler_level, log, call,
                    http_client_args, session, sessions_created, api_calls,
                    request_calls, api_outcome, result, raised, formatted, stdout, file >>

----------------------------------------------------------------------------
(* The run of main() *)

NoCall == [video_id |-> << >>, languages |-> None, proxy_uri |-> None, timeout |-> None]

NoFile == [content |-> None, handle |-> "none", opens |-> << >>, writes |-> << >>,
           failed |-> FALSE]

\* the state every specification starts from, but for pc and the inputs
Blank ==
    /\ caller = "main"
    /\ argv = None
    /\ languages_list = None
    /\ handler_level = 0
    /\ log = << >>
    /\ call = NoCall
    /\ http_client_args = {}
    /\ session = None
    /\ sessions_created = 0
    /\ api_calls = << >>
    /\ request_calls = << >>
    /\ api_outcome = None
    /\ raised = None
    /\ formatted = None
    /\ stdout = << >>
    /\ exit_code = None

Init ==
    /\ pc = "start"
    /\ Blank
    /\ args = NoArgs
    /\ result = None
    /\ file \in { NoFile, [NoFile EXCEPT !.content = Some(<< "old content" >>)] }

Next ==
    \/ ParseArgs
    \/ ConfigureLogging
    \/ SplitLanguages
    \/ CallFetch
    \/ FetchConfigure
    \/ FetchConstruct
    \/ FetchRequest
    \/ Format
    \/ OpenFile
    \/ WriteFile
    \/ ExceptIOError
    \/ PrintStdout
    \/ ExceptVideoUnavailable
    \/ ExceptTranscriptsDisabled
    \/ ExceptNoTranscriptFound
    \/ ExceptNetwork
    \/ ExceptRequestBlocked
    \/ ExceptException
    \/ Uncaught
    \/ Return

Spec == Init /\ [][Next]_vars

\* main() is one thread of straight-line code: while a statement is left to
\* run it runs, and the blocking api call comes back by returning or raising
SpecFair == Spec /\ WF_vars(Next)

----------------------------------------------------------------------------
(* fetch_transcript called on its own, as the tests of test_main.py:49-213 do *)

TestLanguages ==
    { None, Some(<< >>), Some(<< << "e", "n" >> >>),
      Some(<< << "e", "n" >>, << "f", "r" >> >>),
      Some(<< << "f", "r" >>, << "e", "n" >> >>) }

TestProxies == { None, Some(<< >>), Some(<< "http://localhost:8080" >>) }

TestTimeouts == { None, Some(PyInt(0)), Some(PyInt(5)) }

TestCallFetch ==
    /\ pc = "test_start"
    /\ \E v \in VideoIds, l \in TestLanguages, p \in TestProxies, t \in TestTimeouts :
        call' = [video_id |-> v, languages |-> l, proxy_uri |-> p, timeout |-> t]
    /\ caller' = "test"
    /\ pc' = "fetch_entry"
    /\ UNCHANGED << argv, args, languages_list, handler_level, log, http_client_args,
                    session, sessions_created, api_calls, request_calls, api_outcome,
                    result, raised, formatted, stdout, file, exit_code >>

InitFetch ==
    /\ pc = "test_start"
    /\ Blank
    /\ args = NoArgs
    /\ result = None
    /\ file = NoFile

NextFetch ==
    \/ TestCallFetch
    \/ FetchConfigure
    \/ FetchConstruct
    \/ FetchRequest

SpecFetch == InitFetch /\ [][NextFetch]_vars

----------------------------------------------------------------------------
(* The language list of main.py:180-182 over every short --languages value *)

LangChars == { "e", "n", ",", " " }

InitLang ==
    /\ pc = "split_languages"
    /\ Blank
    /\ args \in { [NoArgs EXCEPT !.video_id = << "dQw4" >>, !.languages = l] :
                    l \in {None} \cup { Some(s) : s \in SeqsUpTo(LangChars, MaxLangLen) } }
    /\ result = None
    /\ file = NoFile

NextLang == SplitLanguages

SpecLang == InitLang /\ [][NextLang]_vars

----------------------------------------------------------------------------
(* format_transcript over every short transcript *)

\* 0.0, 0.125, 10.375 and 100.375 seconds, in eighths
FormatStarts == { 0, 1, 83, 803 }

FormatDurations == { 8, 12 }

FormatTexts == { << >>, << "Hello", " ", "world" >>, << "a", "\n", "b" >> }

FormatEntries ==
    { Entry(st, d, t) : st \in FormatStarts, d \in FormatDurations, t \in FormatTexts }

InitFormat ==
    /\ pc = "format"
    /\ Blank
    /\ args = NoArgs
    /\ result \in { Some(t) : t \in SeqsUpTo(FormatEntries, MaxEntries) }
    /\ file = NoFile

NextFormat == Format

SpecFormat == InitFormat /\ [][NextFormat]_vars

----------------------------------------------------------------------------
(* Claims about a run of main(), checked under Spec *)

Exited == pc = "exited"

\* the api call returned a transcript
Fetched == api_outcome # None /\ Val(api_outcome).returned # None

\* the api call raised
FetchFailed == api_outcome # None /\ Val(api_outcome).raised # None

FetchFailure == Val(Val(api_outcome).raised)

\* an output path was given (the empty path counts as none)
OutputGiven == argv # None /\ Val(argv).output \notin { None, Some(<< >>) }

\* the formatted text reached its sink: the write, or the print, came back
Written ==
    /\ formatted # None
    /\ IF OutputGiven THEN file.writes # << >> /\ ~file.failed ELSE stdout # << >>

\* the command line is one argparse rejects
ParseFailure ==
    /\ argv # None
    /\ \/ Val(argv).video_id = None
       \/ Val(argv).timeout \in { Some(<< "a", "b", "c" >>), Some(<< "2", ".", "5" >>) }
       \/ Val(argv).log_level = Some("LOUD")

HelpRequested == argv # None /\ Val(argv).help

\* the formatter, the file or the console raised
LaterFailure ==
    \/ file.failed
    \/ Fetched /\ formatted = None
    \/ Fetched /\ formatted # None /\ ~OutputGiven /\ stdout = << >>

ErrorRecords == SelectSeq(log, LAMBDA r : r.level = "ERROR")

\* C1 as stated: every run ends with exit code 0 or 1, 0 exactly when the
\* transcript was fetched, formatted and written, 1 for every failure,
\* a failure of argument parsing included.
C1_ExitZeroOrOne ==
    Exited =>
        /\ exit_code \in { Some(0), Some(1) }
        /\ (exit_code = Some(0)) <=> (Fetched /\ Written)
        /\ (ParseFailure \/ FetchFailed \/ LaterFailure) => exit_code = Some(1)

\* C1 amended: every run ends with exit code 0, 1 or 2: 2 exactly when
\* argparse rejects the command line, 0 exactly when help was asked for or the
\* transcript was fetched, formatted and written, 1 for every failure of the
\* fetch step, the formatter and the sink.
C1_ExitCodes ==
    Exited =>
        /\ exit_code \in { Some(0), Some(1), Some(2) }
        /\ (exit_code = Some(2)) <=> ParseFailure
        /\ (exit_code = Some(0)) <=> (HelpRequested \/ (Fetched /\ Written))
        /\ (exit_code = Some(1)) <=> (FetchFailed \/ LaterFailure)

\* a run that argparse ended with status 2
C1_Witness ==
    /\ Exited
    /\ ParseFailure
    /\ Val(argv).timeout = Some(<< "2", ".", "5" >>)
    /\ exit_code = Some(2)

Categories == { "video unavailable", "transcripts disabled", "no transcript found",
                "blocked", "network", "unexpected" }

CategoryOf(cls) ==
    CASE cls = "VideoUnavailable" -> "video unavailable"
      [] cls = "TranscriptsDisabled" -> "transcripts disabled"
      [] cls = "NoTranscriptFound" -> "no transcript found"
      [] cls = "RequestBlocked" -> "blocked"
      [] cls \in { "Timeout", "RequestException" } -> "network"
      [] OTHER -> "unexpected"

\* the words only the message of a category holds
Theme(cat) ==
    CASE cat = "video unavailable" -> "' is unavailable. "
      [] cat = "transcripts disabled" -> "Transcripts are disabled for video '"
      [] cat = "no transcript found" -> "Could not find a transcript for video '"
      [] cat = "blocked" -> "Your request was blocked by YouTube. "
      [] cat = "network" ->
            "A network issue occurred (e.g., timeout or connection problem). "
      [] cat = "unexpected" -> "An unexpected error occurred."

\* C2: after a failure of the fetch step the run has logged exactly one ERROR
\* record, it holds the words of the failure's category and of no other
\* category, the video-unavailable and transcripts-disabled messages hold the
\* video id, and the exit code is 1.
C2_OneErrorPerCategory ==
    (Exited /\ FetchFailed) =>
        LET cat == CategoryOf(FetchFailure.cls)
            recs == ErrorRecords
        IN  /\ Len(recs) = 1
            /\ Contains(recs[1].msg, << Theme(cat) >>)
            /\ \A other \in Categories \ {cat} : ~Contains(recs[1].msg, << Theme(other) >>)
            /\ cat \in { "video unavailable", "transcripts disabled" }
                  => Contains(recs[1].msg, Val(Val(argv).video_id))
            /\ exit_code = Some(1)

\* a blocked request, whose clause comes after the network clause, was reported
C2_Witness ==
    /\ Exited
    /\ FetchFailed
    /\ FetchFailure.cls = "RequestBlocked"
    /\ Len(ErrorRecords) = 1
    /\ Contains(ErrorRecords[1].msg, << Theme("blocked") >>)

\* C3: after NoTranscriptFound the ERROR message holds "Tried languages: "
\* followed at once by the requested codes joined with ", " and a full stop
\* when a non-empty language list was requested, and no "Tried languages"
\* part when none was.
C3_TriedLanguages ==
    (Exited /\ FetchFailed /\ FetchFailure.cls = "NoTranscriptFound") =>
        /\ ErrorRecords # << >>
        /\ LET m == ErrorRecords[Len(ErrorRecords)].msg
           IN  IF TruthyList(languages_list)
               THEN Contains(m, << "Tried languages: " >>
                                   \o Join(Val(languages_list), << ",", " " >>)
                                   \o << "." >>)
               ELSE ~Contains(m, << "Tried languages: " >>)

\* C9: on a successful fetch the formatted text goes to exactly one sink:
\* with an output path the file is opened once for writing as UTF-8, gets the
\* whole text in one write and nothing is printed; without one the text is
\* printed to standard output and no file is opened.
C9_OneSink ==
    (Exited /\ Fetched /\ formatted # None) =>
        IF OutputGiven
        THEN /\ file.opens = << [path |-> Val(Val(argv).output), mode |-> "w",
                                 encoding |-> "utf-8"] >>
             /\ ~file.failed => file.writes = << Val(formatted) >>
             /\ stdout = << >>
        ELSE /\ file.opens = << >>
             /\ stdout = Val(formatted) \o << "\n" >>

\* C10: with no --output, standard output after a successful fetch is the
\* formatter's output and a final line terminator, whatever the caption texts.
C10_StdoutIsFormatted ==
    (Exited /\ Fetched /\ formatted # None /\ argv # None /\ Val(argv).output = None) =>
        stdout = format_transcript(Val(Val(api_outcome).returned)) \o << "\n" >>

----------------------------------------------------------------------------
(* Claims about fetch_transcript, checked under SpecFetch *)

Constructed == pc \in { "fetch_request", "test_done" }

HasKey(kwargs, key) == \E kv \in kwargs : kv[1] = key

Client == (CHOOSE kv \in api_calls[1] : kv[1] = "http_client")[2]

\* C5: the client handed to the API carries what was given: with a proxy URI
\* u its proxy mapping is {"http": u, "https": u}; with a timeout t its
\* timeout equals t; with a timeout and no proxy no proxy mapping is set.
C5_TransportCarriesInputs ==
    (Constructed /\ HasKey(api_calls[1], "http_client")) =>
        LET t == call.timeout
            u == call.proxy_uri
            proxy == u # None /\ Val(u) # << >>
        IN  /\ proxy => Client.proxies = { << "http", Val(u) >>, << "https", Val(u) >> }
            /\ t # None => Client.timeout # None /\ PyEq(Val(Client.timeout), Val(t))
            /\ t = None => Client.timeout = None
            /\ ~proxy => ~Client.proxies_assigned /\ Client.proxies = {}

\* a client built from a timeout of 5 and a proxy
C5_Witness ==
    /\ pc = "test_done"
    /\ call.timeout = Some(PyInt(5))
    /\ call.proxy_uri = Some(<< "http://localhost:8080" >>)
    /\ HasKey(api_calls[1], "http_client")
    /\ Client.proxies # {}

\* C6: one request call per invocation: fetch(video_id, languages=L) with the
\* list as given when L is a non-empty list, get_transcript(video_id) when
\* languages is None or empty; what the call returns or raises is what
\* fetch_transcript returns or raises.
C6_OneRequestUnchanged ==
    /\ Len(request_calls) <= 1
    /\ pc = "test_done" =>
        /\ Len(request_calls) = 1
        /\ request_calls[1].video_id = call.video_id
        /\ IF call.languages # None /\ Val(call.languages) # << >>
           THEN /\ request_calls[1].method = "fetch"
                /\ request_calls[1].languages = call.languages
           ELSE /\ request_calls[1].method = "get_transcript"
                /\ request_calls[1].languages = None
        /\ result = Val(api_outcome).returned
        /\ raised = Val(api_outcome).raised

\* fetch called with the list ["fr", "en"], and its Timeout raised on
C6_Witness ==
    /\ pc = "test_done"
    /\ call.languages = Some(<< << "f", "r" >>, << "e", "n" >> >>)
    /\ request_calls[1].method = "fetch"
    /\ raised # None
    /\ Val(raised).cls = "Timeout"

----------------------------------------------------------------------------
(* Claim about the language list, checked under SpecLang *)

CommaCount(s) == Cardinality({ i \in 1..Len(s) : s[i] = "," })

\* the place of the k-th comma of s; 0 before the first, Len(s) + 1 after the last
KthComma(s, k) ==
    IF k = 0 THEN 0
    ELSE IF k > CommaCount(s) THEN Len(s) + 1
    ELSE CHOOSE i \in 1..Len(s) :
            s[i] = "," /\ Cardinality({ j \in 1..i : s[j] = "," }) = k

\* the k-th comma-separated token of s
Token(s, k) == SubSeq(s, KthComma(s, k - 1) + 1, KthComma(s, k) - 1)

\* t without the whitespace around it
Trimmed(t) ==
    LET ns == { i \in 1..Len(t) : t[i] \notin Whitespace }
    IN  IF ns = {} THEN << >>
        ELSE SubSeq(t, CHOOSE i \in ns : \A j \in ns : i <= j,
                       CHOOSE i \in ns : \A j \in ns : i >= j)

\* C7: the language list is the comma-separated tokens of --languages, each
\* trimmed, in order, one per token (commas plus one); it is None when
\* --languages is absent or empty.
C7_LanguageList ==
    pc = "try" =>
        IF args.languages \in { None, Some(<< >>) }
        THEN languages_list = None
        ELSE LET s == Val(args.languages)
             IN  /\ languages_list # None
                 /\ Len(Val(languages_list)) = CommaCount(s) + 1
                 /\ \A k \in 1..(CommaCount(s) + 1) :
                        Val(languages_list)[k] = Trimmed(Token(s, k))

\* "e, n" gives ["e", "n"]
C7_Witness ==
    /\ pc = "try"
    /\ args.languages = Some(<< "e", ",", " ", "n" >>)
    /\ languages_list = Some(<< << "e" >>, << "n" >> >>)

----------------------------------------------------------------------------
(* Claim about format_transcript, checked under SpecFormat *)

\* the numbers of hundredths within half a hundredth of start (in eighths)
Nearest(start) ==
    { h \in ((25 * start) \div 2 - 1)..((25 * start) \div 2 + 1) :
        /\ h >= 0
        /\ 8 * h - 100 * start <= 4
        /\ 100 * start - 8 * h <= 4 }

\* "[<h hundredths, two decimals>] <text>"
Line(h, text) ==
    << "[" >> \o Digits(h \div 100) \o << ".", DigitChar((h % 100) \div 10), DigitChar(h % 10) >>
        \o << "]", " " >> \o text

\* where line i begins in the output: after the lines before it and their newlines
RECURSIVE Offset(_, _)
Offset(lines, i) ==
    IF i = 1 THEN 0 ELSE Offset(lines, i - 1) + Len(lines[i - 1]) + 1

\* C8: the output is the lines "[<start, two decimals>] <text>" of the
\* entries, one per entry and in their order, with one newline between
\* consecutive lines and none before the first or after the last; it is empty
\* for no entries, and nothing of an entry but start and text is in it.
C8_FormatLines ==
    (pc = "sink" /\ formatted # None) =>
        LET items == Val(result)
            out == Val(formatted)
            n == Len(items)
            hs == UNION { Nearest(items[i].start) : i \in 1..n }
        IN  /\ n = 0 => out = << >>
            /\ n > 0 =>
                \E h \in [1..n -> hs] :
                    LET lines == [i \in 1..n |-> Line(h[i], items[i].text)]
                    IN  /\ \A i \in 1..n : h[i] \in Nearest(items[i].start)
                        /\ Len(out) = Offset(lines, n) + Len(lines[n])
                        /\ \A i \in 1..n :
                            /\ SubSeq(out, Offset(lines, i) + 1,
                                      Offset(lines, i) + Len(lines[i])) = lines[i]
                            /\ i > 1 => out[Offset(lines, i)] = "\n"

\* two entries, the first at 0.125 s (rounded to 0.12), formatted on two lines
C8_Witness ==
    /\ pc = "sink"
    /\ Len(Val(result)) = 2
    /\ Val(result)[1].start = 1
    /\ Val(result)[2].start = 803
    /\ formatted = Some(<< "[", "0", ".", "1", "2", "]", " ", "Hello", " ", "world", "\n",
                           "[", "1", "0", "0", ".", "3", "8", "]", " ", "a", "\n", "b" >>)

----------------------------------------------------------------------------
(* Claims about the log level of a run of main(), checked under Spec *)

\* logging was configured: parse_args() returned and RichHandler was built
LoggingConfigured == pc \notin { "start", "configure_logging" } /\ args # NoArgs

FlagsGiven == { Val(argv).flags[i] : i \in 1..Len(Val(argv).flags) }

\* C11: the effective log level is DEBUG whenever -d is given, whatever -v
\* and --log-level say and wherever -d stands on the command line; INFO when
\* -v is given without -d; otherwise the --log-level value, WARNING by default.
C11_DebugOverrides ==
    LoggingConfigured =>
        handler_level =
            LevelNo[IF "-d" \in FlagsGiven THEN "DEBUG"
                    ELSE IF "-v" \in FlagsGiven THEN "INFO"
                    ELSE IF Val(argv).log_level = None THEN "WARNING"
                    ELSE Val(Val(argv).log_level)]

\* main.py:156-165: the logger itself is set to DEBUG, so it makes a record of
\* every call and hands it to its handlers and, by propagation, to those of
\* the root logger; only the RichHandler drops what is below its own level
RichHandlerEmits(record) == LevelNo[record.level] >= handler_level

\* what the RichHandler writes to the terminal
Emitted == SelectSeq(log, RichHandlerEmits)

HasRecord(level, words) ==
    \E i \in 1..Len(log) : log[i].level = level /\ Contains(log[i].msg, << words >>)

\* C12: with effective level L the logger "youtube_transcript_cli" produces
\* no record of a severity below L during the run; at INFO or below the
\* "Fetching transcript for video ID" INFO record is produced, and at DEBUG
\* the "Parsed arguments" and "Effective log level set to" DEBUG records.
C12_NoRecordBelowLevel ==
    LoggingConfigured =>
        /\ \A i \in 1..Len(log) : LevelNo[log[i].level] >= handler_level
        /\ (Exited /\ handler_level <= LevelNo["INFO"])
              => HasRecord("INFO", "Fetching transcript for video ID: ")
        /\ handler_level = LevelNo["DEBUG"]
              => /\ HasRecord("DEBUG", "Parsed arguments: ")
                 /\ HasRecord("DEBUG", "Effective log level set to: ")

----------------------------------------------------------------------------
(* Claims about what the except clauses log, checked under Spec *)

\* some words of str(e) stand in the message
ExceptionTextIn(msg, e) ==
    \E i \in 1..Len(e.detail) : Contains(msg, << e.detail[i] >>)

\* the categories whose clause does not bind the exception (no "as e")
CuratedOnly == { "video unavailable", "transcripts disabled", "blocked" }

\* C13 as stated: for every known failure category the logged message holds
\* no text of the raised exception and carries no traceback; only the
\* unexpected-error category logs the exception's text with its traceback.
C13_KnownCuratedOnly ==
    (Exited /\ FetchFailed) =>
        /\ Len(ErrorRecords) = 1
        /\ LET rec == ErrorRecords[1]
           IN  IF CategoryOf(FetchFailure.cls) = "unexpected"
               THEN Contains(rec.msg, FetchFailure.detail) /\ rec.exc_info
               ELSE ~ExceptionTextIn(rec.msg, FetchFailure) /\ ~rec.exc_info

\* C13 amended: the messages for video unavailable, transcripts disabled and
\* request blocked hold no text of the raised exception; those for no
\* transcript found and for a network timeout or error end with " Details: "
\* and the exception's own text; none of the known categories carries a
\* traceback; only the unexpected-error category logs the exception's text
\* together with its traceback.
C13_DetailsWithoutTraceback ==
    (Exited /\ FetchFailed) =>
        /\ Len(ErrorRecords) = 1
        /\ LET rec == ErrorRecords[1]
               cat == CategoryOf(FetchFailure.cls)
           IN  /\ rec.exc_info <=> cat = "unexpected"
               /\ IF cat \in CuratedOnly
                  THEN ~ExceptionTextIn(rec.msg, FetchFailure)
                  ELSE /\ Contains(rec.msg, FetchFailure.detail)
                       /\ cat # "unexpected"
                             => Contains(rec.msg, << " Details: ", "[", "dim", "]" >>
                                                      \o FetchFailure.detail)

\* a timeout was reported with the exception's text and without a traceback
C13_Witness ==
    /\ Exited
    /\ FetchFailed
    /\ FetchFailure.cls = "Timeout"
    /\ Len(ErrorRecords) = 1
    /\ Contains(ErrorRecords[1].msg, << "str(e) of ", "Timeout" >>)
    /\ ~ErrorRecords[1].exc_info

----------------------------------------------------------------------------
(* Claims about the order of the steps of a run, checked under Spec *)

\* the sink was touched: the file opened or written, or the transcript printed
SinkTouched ==
    \/ file.opens # << >>
    \/ file.writes # << >>
    \/ file.handle # "none"
    \/ stdout # << >> /\ ~HelpRequested

\* the formatter is called after a fetch that returned, the sink is touched
\* after the formatter returned, and a failed fetch leaves all of it undone
FetchFormatWrite ==
    /\ formatted # None => Fetched
    /\ SinkTouched => formatted # None
    /\ FetchFailed =>
          /\ Len(request_calls) = 1
          /\ pc \in { "except", "exited" }
          /\ formatted = None
          /\ ~SinkTouched
          /\ stdout = << >>

----------------------------------------------------------------------------
(* Claims about retries and termination, checked under SpecFair *)

\* an exception is on its way to the except clauses
ErrorState == pc \in { "io_error", "except" }

\* from an error state the run only logs and exits
NoStepAfterError ==
    ErrorState =>
        /\ request_calls' = request_calls
        /\ api_calls' = api_calls
        /\ formatted' = formatted
        /\ file' = file
        /\ stdout' = stdout
        /\ pc' \in { "except", "exited" }

\* C15: the fetch step is invoked at most once in a run; once an error state
\* is entered no fetch, format or write step follows, the run logs and exits;
\* every run terminates.
C15_NoRetry ==
    /\ [](Len(request_calls) <= 1 /\ Len(api_calls) <= 1)
    /\ [][NoStepAfterError]_vars
    /\ <>Exited

\* a run whose one request failed on the network has ended
C15_Witness ==
    /\ Exited
    /\ FetchFailed
    /\ FetchFailure.cls = "RequestException"
    /\ Len(request_calls) = 1
    /\ exit_code = Some(FailureStatus)

----------------------------------------------------------------------------
(* Claims about a failure of the output file, checked under Spec *)

\* C16: when opening or writing the output file fails with an I/O error the
\* run logs one ERROR record "Failed to write transcript to file <path>: ...",
\* logs no "Transcript successfully saved" record, prints nothing, leaves no
\* file handle open and exits with code 1; the SystemExit passes the outer
\* except clauses, so no "unexpected error" record is logged.
C16_WriteFailure ==
    (Exited /\ file.failed) =>
        /\ Len(ErrorRecords) = 1
        /\ Contains(ErrorRecords[1].msg,
                    << "Failed to write transcript to file " >> \o Val(args.output))
        /\ ~ErrorRecords[1].exc_info
        /\ \A i \in 1..Len(log) :
              /\ ~Contains(log[i].msg, << "Transcript successfully saved to " >>)
              /\ ~Contains(log[i].msg, << Theme("unexpected") >>)
        /\ stdout = << >>
        /\ file.handle \in { "none", "closed" }
        /\ raised = Some(SystemExit(1))
        /\ exit_code = Some(1)

\* the file was opened, the write failed, and the run has ended
C16_Witness ==
    /\ Exited
    /\ file.failed
    /\ Len(file.opens) = 1
    /\ file.handle = "closed"
    /\ file.writes = << >>
    /\ exit_code = Some(1)

====
